---- MODULE Spec2Model ----
(***************************************************************************)
(* The five PowerLine agent scripts of src/src/*.py.                       *)
(*                                                                         *)
(* Every file is one template with its own literals: a class with          *)
(* __init__, initialize, execute_task and report_status (lines 6-30) and   *)
(* two module-level statements that construct the agent and print the      *)
(* result of initialize (lines 33-34).                                     *)
(*                                                                         *)
(* Two uses of a file are modelled.                                        *)
(*   - RunProgram: `python <file>`.  The interpreter compiles the whole    *)
(*     file before it executes its first statement, so the class header    *)
(*     of line 6 is parsed first.                                          *)
(*   - Initialize, ExecuteTask, ReportStatus: the three methods, as the    *)
(*     class body writes them, called in any order by the Command Center   *)
(*     the docstrings name, on the object __init__ builds.                 *)
(*                                                                         *)
(* A Python str is a TLA+ string.  Characters a TLA+ string cannot hold    *)
(* are written as the Python escape of the same character: the robot of    *)
(* line 15 is \U0001F916, the lightning of line 21 is \u26A1.          *)
(***************************************************************************)
EXTENDS Integers, Sequences, FiniteSets, TLC

\* Number of method calls the Command Center makes on one agent.
MaxCalls == 3

\* The value of a variable that holds no object (Python's None).
None == "None"

\* The five source files.
Files ==
    { "elena-backend-api.py", "grace-ai-integration.py", "iris-devops.py",
      "jack-powerline-viz.py", "maya-viral.py" }

\* self.name, line 8 of each file.
NameOf(f) ==
    CASE f = "elena-backend-api.py"    -> "elena-backend-api"
      [] f = "grace-ai-integration.py" -> "grace-ai-integration"
      [] f = "iris-devops.py"          -> "iris-devops"
      [] f = "jack-powerline-viz.py"   -> "jack-powerline-viz"
      [] f = "maya-viral.py"           -> "maya-viral"

\* self.description, line 9 of each file.
DescriptionOf(f) ==
    CASE f = "elena-backend-api.py"    -> "Backend API - Talk Fusion integration"
      [] f = "grace-ai-integration.py" -> "AI Integration - MEM0 v2.0 system"
      [] f = "iris-devops.py"          -> "DevOps - Deployment pipeline"
      [] f = "jack-powerline-viz.py"   -> "PowerLine Visualization - Tree displays"
      [] f = "maya-viral.py"           -> "Viral Features - PowerLine sharing"

\* Line 6 of each file, as the tokenizer splits it: a hyphen is the minus
\* operator, never part of a NAME token.
ClassHeader(f) ==
    CASE f = "elena-backend-api.py"    ->
           <<"class", "Elena", "-", "backend", "-", "apiAgent", ":">>
      [] f = "grace-ai-integration.py" ->
           <<"class", "Grace", "-", "ai", "-", "integrationAgent", ":">>
      [] f = "iris-devops.py"          ->
           <<"class", "Iris", "-", "devopsAgent", ":">>
      [] f = "jack-powerline-viz.py"   ->
           <<"class", "Jack", "-", "powerline", "-", "vizAgent", ":">>
      [] f = "maya-viral.py"           ->
           <<"class", "Maya", "-", "viralAgent", ":">>

\* Operator and delimiter tokens that occur in a class header.
OpTokens == { "-", ":", "(", ")", "class" }

\* A NAME token.
IsName(t) == t \notin OpTokens

\* Python's class_def rule: 'class' NAME ['(' arguments ')'] ':' block.
\* The token after the class name must open the bases or end the header.
ParsesClassDef(toks) ==
    /\ Len(toks) >= 3
    /\ toks[1] = "class"
    /\ IsName(toks[2])
    /\ toks[3] \in { ":", "(" }

\* Task strings holding a lone surrogate code point.  Python accepts them
\* in a str; the UTF-8 codec of sys.stdout refuses to encode them.
SurrogateTasks == { "\\ud800", "deploy\\udfff" }

\* The task strings the Command Center passes to execute_task.
Tasks == { "", "deploy", "it's" } \cup SurrogateTasks


VARIABLES
    file,       \* the source file the agent's class comes from
    agent,      \* the object: name, description, status, powerline_integration
    stdout,     \* the lines written to sys.stdout by the agent's methods
    op,         \* the method called last, "none" before the first call
    arg,        \* the task passed to that call, None when it takes none
    ret,        \* the value that call returned, None when it raised
    exc,        \* the exception that call raised, None when it returned
    calls,      \* the number of method calls made so far
    first,      \* <<>> until initialize first returns, then <<its outcome>>
    proc        \* the process of `python <file>`

vars == <<file, agent, stdout, op, arg, ret, exc, calls, first, proc>>

----------------------------------------------------------------------------
\* Formatting and console output.

RECURSIVE Join(_)
\* The concatenation of a sequence of strings.
Join(pieces) ==
    IF pieces = <<>> THEN "" ELSE Head(pieces) \o Join(Tail(pieces))

\* An f-string: its literal parts and the values of its replacement fields,
\* in order, concatenated.
fstring(pieces) == Join(pieces)

\* sys.stdout encodes with UTF-8 and the strict error handler: a lone
\* surrogate anywhere in the text cannot be encoded.
UTF8Encodable(pieces) ==
    \A i \in 1..Len(pieces) : pieces[i] \notin SurrogateTasks

\* print(text): one more line on sys.stdout, or UnicodeEncodeError and
\* nothing written.
print(pieces, out) ==
    IF UTF8Encodable(pieces)
    THEN [out |-> Append(out, fstring(pieces)), exc |-> None]
    ELSE [out |-> out, exc |-> "UnicodeEncodeError"]

----------------------------------------------------------------------------
\* The class body, lines 7-30.  A method takes the object and the console
\* and gives the object and the console after the call, with the value it
\* returned or the exception it raised.

\* AgentInit, were the object built already active.
AgentInit_active(f) ==
    [ name                  |-> NameOf(f),
      description           |-> DescriptionOf(f),
      status                |-> "active",
      powerline_integration |-> TRUE ]

\* __init__, lines 7-11.
AgentInit(f) ==
    [ name                  |-> NameOf(f),
      description           |-> DescriptionOf(f),
      status                |-> "initialized",
      powerline_integration |-> TRUE ]

\* initialize, were it to flip the status instead of setting it.
initialize_toggle(self, out) ==
    [ self |-> [self EXCEPT !.status = IF self.status = "active"
                                       THEN "initialized" ELSE "active"],
      out  |-> Append(out, fstring(<<"\\U0001F916 ", self.name,
                                     " agent initializing...">>)),
      ret  |-> fstring(<<self.name, " ready for PowerLine operations">>),
      exc  |-> None ]

\* initialize, were it to answer differently once the agent is active.
initialize_once(self, out) ==
    [ self |-> [self EXCEPT !.status = "active"],
      out  |-> Append(out, fstring(<<"\\U0001F916 ", self.name,
                                     " agent initializing...">>)),
      ret  |-> IF self.status = "active"
               THEN fstring(<<self.name, " already active">>)
               ELSE fstring(<<self.name, " ready for PowerLine operations">>),
      exc  |-> None ]

\* initialize, lines 13-17.
initialize(self, out) ==
    LET p == print(<<"\\U0001F916 ", self.name, " agent initializing...">>, out)
    IN  IF p.exc # None
        THEN [self |-> self, out |-> p.out, ret |-> None, exc |-> p.exc]
        ELSE [ self |-> [self EXCEPT !.status = "active"],
               out  |-> p.out,
               ret  |-> fstring(<<self.name, " ready for PowerLine operations">>),
               exc  |-> None ]

\* execute_task, were it to activate the agent it runs the task on.
execute_task_activates(self, task, out) ==
    LET p == print(<<"\\u26A1 ", self.name, " executing: ", task>>, out)
    IN  IF p.exc # None
        THEN [self |-> self, out |-> p.out, ret |-> None, exc |-> p.exc]
        ELSE [ self |-> [self EXCEPT !.status = "active"],
               out  |-> p.out,
               ret  |-> fstring(<<"Task '", task, "' completed by ", self.name>>),
               exc  |-> None ]

\* execute_task, lines 19-22.
execute_task(self, task, out) ==
    LET p == print(<<"\\u26A1 ", self.name, " executing: ", task>>, out)
    IN  IF p.exc # None
        THEN [self |-> self, out |-> p.out, ret |-> None, exc |-> p.exc]
        ELSE [ self |-> self,
               out  |-> p.out,
               ret  |-> fstring(<<"Task '", task, "' completed by ", self.name>>),
               exc  |-> None ]

\* report_status, were it to carry the description as a fourth key.
report_status_four(self, out) ==
    [ self |-> self,
      out  |-> out,
      ret  |-> [ agent           |-> self.name,
                 description     |-> self.description,
                 status          |-> self.status,
                 powerline_ready |-> self.powerline_integration ],
      exc  |-> None ]

\* report_status, were the flag to mean "the agent is active".
report_status_flag(self, out) ==
    [ self |-> self,
      out  |-> out,
      ret  |-> [ agent           |-> self.name,
                 status          |-> self.status,
                 powerline_ready |-> self.status = "active" ],
      exc  |-> None ]

\* report_status, were it to mark the agent as reported.
report_status_marks(self, out) ==
    [ self |-> [self EXCEPT !.status = "reported"],
      out  |-> out,
      ret  |-> [ agent           |-> self.name,
                 status          |-> self.status,
                 powerline_ready |-> self.powerline_integration ],
      exc  |-> None ]

\* report_status, lines 24-30.
report_status(self, out) ==
    [ self |-> self,
      out  |-> out,
      ret  |-> [ agent           |-> self.name,
                 status          |-> self.status,
                 powerline_ready |-> self.powerline_integration ],
      exc  |-> None ]

----------------------------------------------------------------------------
\* Running a file as a program.

\* The process before `python <file>` is started.
NotStarted ==
    [ state |-> "not_started", exit |-> 0, stdout |-> <<>>, error |-> None,
      trace |-> <<>>, status |-> None ]

\* `python <file>`: compile the file, then execute lines 33-34.  trace lists
\* the methods the module level called, status is agent.status at exit.
RunFile(f) ==
    IF ~ParsesClassDef(ClassHeader(f))
    THEN [ state |-> "exited", exit |-> 1, stdout |-> <<>>,
           error |-> "SyntaxError", trace |-> <<>>, status |-> None ]
    ELSE LET a == AgentInit(f)
             r == initialize(a, <<>>)
             p == IF r.exc = None THEN print(<<r.ret>>, r.out)
                                  ELSE [out |-> r.out, exc |-> r.exc]
         IN  [ state  |-> "exited",
               exit   |-> IF p.exc = None THEN 0 ELSE 1,
               stdout |-> p.out,
               error  |-> p.exc,
               trace  |-> <<"__init__", "initialize">>,
               status |-> r.self.status ]

----------------------------------------------------------------------------
\* The state machine.

\* The object right after construction, for any of the five files; no
\* method called yet, no program run yet.
Init ==
    /\ file \in Files
    /\ agent = AgentInit(file)
    /\ stdout = <<>>
    /\ op = "none"
    /\ arg = None
    /\ ret = None
    /\ exc = None
    /\ calls = 0
    /\ first = <<>>
    /\ proc = NotStarted

\* agent.initialize()
Initialize ==
    /\ calls < MaxCalls
    /\ LET r == initialize(agent, stdout)
       IN  /\ agent' = r.self
           /\ stdout' = r.out
           /\ ret' = r.ret
           /\ exc' = r.exc
           /\ first' = IF first = <<>> /\ r.exc = None
                       THEN << [ret |-> r.ret, agent |-> r.self] >>
                       ELSE first
    /\ op' = "initialize"
    /\ arg' = None
    /\ calls' = calls + 1
    /\ UNCHANGED <<file, proc>>

\* agent.execute_task(task)
ExecuteTask ==
    /\ calls < MaxCalls
    /\ \E task \in Tasks :
         LET r == execute_task(agent, task, stdout)
         IN  /\ agent' = r.self
             /\ stdout' = r.out
             /\ ret' = r.ret
             /\ exc' = r.exc
             /\ arg' = task
    /\ op' = "execute_task"
    /\ calls' = calls + 1
    /\ UNCHANGED <<file, first, proc>>

\* agent.report_status()
ReportStatus ==
    /\ calls < MaxCalls
    /\ LET r == report_status(agent, stdout)
       IN  /\ agent' = r.self
           /\ stdout' = r.out
           /\ ret' = r.ret
           /\ exc' = r.exc
    /\ op' = "report_status"
    /\ arg' = None
    /\ calls' = calls + 1
    /\ UNCHANGED <<file, first, proc>>

\* python <file>
RunProgram ==
    /\ proc.state = "not_started"
    /\ proc' = RunFile(file)
    /\ UNCHANGED <<file, agent, stdout, op, arg, ret, exc, calls, first>>

Next ==
    \/ Initialize
    \/ ExecuteTask
    \/ ReportStatus
    \/ RunProgram

Spec == Init /\ [][Next]_vars

----------------------------------------------------------------------------
\* Properties.

\* The console line initialize writes for the agent.
Notice == "\\U0001F916 " \o agent.name \o " agent initializing..."

\* The value initialize returns for the agent.
Ready == agent.name \o " ready for PowerLine operations"

\* The step is a call of the method m.
Called(m) == op' = m /\ calls' = calls + 1

\* C1: status is monotonic.  Once status is "active" it is "active" in
\* every later state, whatever is called, and every report_status made
\* after initialize first returned reports "active".
StatusMonotonic ==
    /\ [](op = "report_status" /\ first # <<>> => ret.status = "active")
    /\ [][agent.status = "active" => agent'.status = "active"]_vars

\* C1 witness: a report made as the third call or later, after an
\* initialize.
StatusMonotonicWitness ==
    op = "report_status" /\ first # <<>> /\ calls >= 3

\* C2: before the first initialize, whatever number of report_status and
\* execute_task calls were made, status is "initialized" and report_status
\* reports "initialized".
InitializedBeforeInitialize ==
    first = <<>> =>
        /\ agent.status = "initialized"
        /\ op = "report_status" => ret.status = "initialized"

\* C2 witness: a report with no initialize before it and a task executed
\* before it.
InitializedBeforeInitializeWitness ==
    op = "report_status" /\ first = <<>> /\ Len(stdout) >= 1

\* C3: initialize ends with status "active" and returns the name followed
\* by " ready for PowerLine operations", in either prior status, and a
\* later call ends in the same state with the same value as the first one.
InitializeIdempotent ==
    op = "initialize" =>
        /\ exc = None
        /\ agent.status = "active"
        /\ ret = agent.name \o " ready for PowerLine operations"
        /\ first = << [ret |-> ret, agent |-> agent] >>

\* C3 witness: an initialize called on an agent an earlier initialize made
\* active.
InitializeIdempotentWitness ==
    op = "initialize" /\ Len(stdout) >= 2 /\ stdout[1] = Notice

\* C4: execute_task(T) returns "Task '" + T + "' completed by " + N, for
\* every task string T and either status.
ExecuteTaskReturns ==
    op = "execute_task" =>
        ret = "Task '" \o arg \o "' completed by " \o agent.name

\* C5: execute_task leaves name, description, status and
\* powerline_integration as they were, for every task and prior state.
ExecuteTaskFrame ==
    [][Called("execute_task") => agent' = agent]_vars

\* C5 witness: a task executed on an agent that was not initialized and
\* still is not.
ExecuteTaskFrameWitness ==
    op = "execute_task" /\ exc = None /\ agent.status = "initialized"

\* C6, as claimed: the mapping report_status returns has exactly four keys
\* and carries the name, the status and the readiness flag.
ReportStatusFourKeys ==
    op = "report_status" =>
        /\ Cardinality(DOMAIN ret) = 4
        /\ ret.agent = agent.name
        /\ ret.status = agent.status
        /\ ret.powerline_ready = agent.powerline_integration

\* C6, amended: the mapping report_status returns has exactly the three
\* keys agent, status and powerline_ready, and carries the name, the status
\* and the readiness flag.
ReportStatusThreeKeys ==
    op = "report_status" =>
        /\ DOMAIN ret = { "agent", "status", "powerline_ready" }
        /\ ret.agent = agent.name
        /\ ret.status = agent.status
        /\ ret.powerline_ready = agent.powerline_integration

\* C6 witness: a report of an active agent.
ReportStatusThreeKeysWitness ==
    op = "report_status" /\ agent.status = "active"

\* C7: powerline_integration is true in every state, and powerline_ready
\* is true in the result of every report_status.
PowerlineReadyAlways ==
    /\ agent.powerline_integration = TRUE
    /\ op = "report_status" => ret.powerline_ready = TRUE

\* C7 witness: a report made after an initialize and an executed task.
PowerlineReadyAlwaysWitness ==
    /\ op = "report_status"
    /\ first # <<>>
    /\ \E i \in 1..Len(stdout) : stdout[i] # Notice

\* C8: a file run as a program constructs the agent, calls initialize,
\* prints the notice and then the readiness message and nothing else, and
\* ends with status "active".
ProgramRunsOnce ==
    proc.state = "exited" =>
        /\ proc.error = None
        /\ proc.exit = 0
        /\ proc.trace = <<"__init__", "initialize">>
        /\ proc.stdout = <<Notice, Ready>>
        /\ proc.status = "active"

\* C9: no call of initialize, execute_task or report_status raises; each
\* returns a value.
OperationsTotal ==
    op \in { "initialize", "execute_task", "report_status" } => exc = None

\* C10: report_status changes nothing, prints nothing, and the status it
\* reports is the status of the agent at the call, one of "initialized" and
\* "active".
ReportStatusPure ==
    [][Called("report_status") =>
          /\ agent' = agent
          /\ stdout' = stdout
          /\ ret'.status = agent.status
          /\ agent.status \in { "initialized", "active" }]_vars

\* C10 witness: a report of an active agent made as the second call or
\* later.
ReportStatusPureWitness ==
    op = "report_status" /\ calls >= 2 /\ first # <<>>

====
